---- MODULE Spec2Model ----
(***************************************************************************)
(* The temperature-sweep driver of main.py (run_simulation and its         *)
(* helpers) as a state machine, and the Ising engine it calls (run_ising,  *)
(* module ising) at the level of lattice, proposals, sweeps and recorded   *)
(* series.                                                                 *)
(*                                                                         *)
(* Temperatures are integers (a fixed unit, e.g. tenths), so that          *)
(* "t_max - t_min is a whole multiple of t_step" is exact.  A mean is the  *)
(* exact fraction <<sum, count>> (<<0, 0>> is numpy's nan of an empty      *)
(* window); a standard deviation is represented by its square, the exact   *)
(* fraction <<count*sumsq - sum^2, count^2>>.                              *)
(***************************************************************************)
EXTENDS Integers, Sequences, FiniteSets

VARIABLES
    \* ---- command-line options of run_simulation (main.py:32-46)
    t_min, t_max, t_step, num_steps, num_analysis, num_burnin, plots,
    \* ---- run_simulation
    pc,            \* position in run_simulation
    T,             \* the temperature array of get_temp_array
    index,         \* enumerate() index of the loop (0-based)
    Msamp, Esamp,  \* the series returned by the last run_ising call
    created,       \* the output file exists
    file,          \* the rows of the output file, in order
    calls,         \* the run_ising invocations made so far, in order
    temp_arr, M_mean_arr, E_mean_arr, M_std_arr, E_std_arr,
    log,           \* the logging.error records emitted so far
    figures,       \* what plot_graphs has drawn
    sigint,        \* a KeyboardInterrupt has been raised inside the loop
    \* ---- the engine (one run_ising invocation)
    N, J, B, S, Bn, nprop, spin, M, E, sweep, cand, Ms, Es, engine,
    flips          \* history: the flips accepted so far in this invocation

dvars == <<t_min, t_max, t_step, num_steps, num_analysis, num_burnin, plots,
           pc, T, index, Msamp, Esamp, created, file, calls,
           temp_arr, M_mean_arr, E_mean_arr, M_std_arr, E_std_arr,
           log, figures, sigint>>
evars == <<N, J, B, S, Bn, nprop, spin, M, E, sweep, cand, Ms, Es, engine, flips>>
vars == <<dvars, evars>>

\* ------------------------------------------------------------------ bounds
MaxTemp == 3      \* t_min, t_max range over 0..MaxTemp
MaxSteps == 2     \* num_steps ranges over 0..MaxSteps
MaxN == 3         \* lattice sizes 1..MaxN of the single-proposal engine runs
MaxSweeps == 2    \* sweep counts 0..MaxSweeps of the multi-sweep engine runs
MaxProposals == 2 \* proposals per sweep, at most, of the multi-sweep engine runs

\* The outcome of a call that can fail: it returns, it raises an ordinary
\* exception, or a KeyboardInterrupt is raised inside it.
Outcomes == {"ok", "error", "interrupt"}
\* The random stream of one engine invocation, drawn from a small set.
Seeds == {0, 1}
\* Coupling strengths and fields tried (integers keep the arithmetic exact).
JValues == {-1, 1}
BValues == {0, 1}
\* The <<J, B>> pairs of the single-proposal engine runs: a ferromagnet
\* without field, an antiferromagnet in a field.
FlipCouplings == {<<1, 0>>, <<-1, 1>>}
\* Lattice sizes of the multi-sweep engine runs.
SweepSizes == {1, 2}
\* The values of --t_step tried: negative, zero and positive.
StepValues == {-1, 0, 1, 2}

\* ------------------------------------------------------- numpy and Python
RECURSIVE SumTo(_, _)
\* s[1] + ... + s[k].
SumTo(s, k) == IF k = 0 THEN 0 ELSE s[k] + SumTo(s, k - 1)

SeqSum(s) == SumTo(s, Len(s))

Squares(s) == [k \in 1..Len(s) |-> s[k] * s[k]]

\* np.average(w): sum / count, as the exact fraction.
Average(w) == <<SeqSum(w), Len(w)>>

\* np.std(w): sqrt(mean(x^2) - mean(x)^2), represented by its square.
Std(w) == <<Len(w) * SeqSum(Squares(w)) - SeqSum(w) * SeqSum(w), Len(w) * Len(w)>>

\* The 0-based index at which Python's series[start:] begins, for a list of
\* length len: a negative start counts from the end and is clipped at 0, a
\* start past the end is clipped at len.
SliceStart(len, start) ==
    IF start < 0
    THEN (IF start + len < 0 THEN 0 ELSE start + len)
    ELSE (IF start > len THEN len ELSE start)

\* series[-num:], the window of calculate_and_save_values and get_plot_values.
\* Python evaluates -num first: for num = 0 the slice is series[0:].
TailWindow(series, num) ==
    SubSeq(series, SliceStart(Len(series), 0 - num) + 1, Len(series))

\* np.arange(start, stop, step) for step # 0: ceil((stop - start) / step)
\* values start + k*step, none when that count is not positive.
ArangeLen(start, stop, step) ==
    LET d == stop - start
        q == IF step > 0 THEN (d + step - 1) \div step
                         ELSE ((0 - d) + (0 - step) - 1) \div (0 - step)
    IN  IF step > 0 THEN (IF d <= 0 THEN 0 ELSE q)
                    ELSE (IF d >= 0 THEN 0 ELSE q)

arange(start, stop, step) ==
    [k \in 1..ArangeLen(start, stop, step) |-> start + (k - 1) * step]

\* ------------------------------------------------------------ the helpers
\* check_step_values without its second test.
check_step_values_burnin_only(ns, na, nb) ==
    IF nb > ns THEN "ValueError" ELSE "ok"

\* check_step_values: "ValueError" when it raises, "ok" when it returns.
check_step_values(ns, na, nb) ==
    IF nb > ns THEN "ValueError"
    ELSE IF na > ns - nb THEN "ValueError"
    ELSE "ok"

\* get_temp_array: [err |-> "ValueError"] when it raises, else the array.
get_temp_array(tmin, tmax, tstep) ==
    IF tmin > tmax THEN [err |-> "ValueError", T |-> <<>>]
    ELSE IF tstep = 0 THEN [err |-> "ValueError", T |-> <<>>]
    ELSE [err |-> "ok", T |-> arange(tmin, tmax, tstep)]

header_array == <<"Temperature", "Magnetization Mean", "Magnetization Std Dev",
                  "Energy Mean", "Energy Std Dev">>

HeaderRow == [kind |-> "header", cells |-> header_array]
DataRow(cells) == [kind |-> "data", cells |-> cells]

\* append_data_to_file: the row is appended, or the failure (whatever was
\* raised, a KeyboardInterrupt included) is logged and swallowed.
\* st is [file, log, sigint]; the result is the same record after the call.
append_data_to_file(st, temp, row, out) ==
    IF out = "ok"
    THEN [st EXCEPT !.file = Append(@, row)]
    ELSE [st EXCEPT !.log = Append(@, <<"Error Writing to File", temp>>),
                    !.sigint = @ \/ out = "interrupt"]

\* calculate_and_save_values with the std-dev and energy-mean columns of the
\* data row exchanged.
calculate_and_save_values_swapped(st, idx, temp, Ms_, Es_, na, statOut, headOut, dataOut) ==
    IF statOut # "ok"
    THEN [file |-> st.file,
          log |-> Append(st.log, <<"Statistical Calculation Failed", temp>>),
          sigint |-> st.sigint \/ statOut = "interrupt",
          ret |-> FALSE]
    ELSE LET M_mean == Average(TailWindow(Ms_, na))
             E_mean == Average(TailWindow(Es_, na))
             M_std == Std(TailWindow(Ms_, na))
             E_std == Std(TailWindow(Es_, na))
             data_array == <<temp, M_mean, E_mean, M_std, E_std>>
             s1 == IF idx = 0 THEN append_data_to_file(st, temp, HeaderRow, headOut)
                              ELSE st
             s2 == append_data_to_file(s1, temp, DataRow(data_array), dataOut)
         IN  [file |-> s2.file, log |-> s2.log, sigint |-> s2.sigint, ret |-> TRUE]

\* calculate_and_save_values: statOut is the outcome of the four numpy
\* calls, headOut and dataOut those of the two appends.  The result is
\* [file, log, sigint, ret] with ret the returned boolean.
calculate_and_save_values(st, idx, temp, Ms_, Es_, na, statOut, headOut, dataOut) ==
    IF statOut # "ok"
    THEN [file |-> st.file,
          log |-> Append(st.log, <<"Statistical Calculation Failed", temp>>),
          sigint |-> st.sigint \/ statOut = "interrupt",
          ret |-> FALSE]
    ELSE LET M_mean == Average(TailWindow(Ms_, na))
             E_mean == Average(TailWindow(Es_, na))
             M_std == Std(TailWindow(Ms_, na))
             E_std == Std(TailWindow(Es_, na))
             data_array == <<temp, M_mean, M_std, E_mean, E_std>>
             s1 == IF idx = 0 THEN append_data_to_file(st, temp, HeaderRow, headOut)
                              ELSE st
             s2 == append_data_to_file(s1, temp, DataRow(data_array), dataOut)
         IN  [file |-> s2.file, log |-> s2.log, sigint |-> s2.sigint, ret |-> TRUE]

\* get_plot_values: the four statistics, or FALSE after logging the failure.
get_plot_values(Ms_, Es_, na) ==
    [M_mean |-> Average(TailWindow(Ms_, na)),
     E_mean |-> Average(TailWindow(Es_, na)),
     M_std |-> Std(TailWindow(Ms_, na)),
     E_std |-> Std(TailWindow(Es_, na))]

\* plot_graphs(temp_arr, M_mean_arr, M_std_arr, E_mean_arr, E_std_arr): the
\* parameters are named as in its def line.
plot_graphs(p_temp_arr, p_M_mean_arr, p_M_std_arr, p_E_mean_arr, p_E_std_arr) ==
    [magnetization |-> [x |-> p_temp_arr, y |-> p_M_mean_arr, yerr |-> p_M_std_arr],
     energy |-> [x |-> p_temp_arr, y |-> p_E_mean_arr, yerr |-> p_E_std_arr]]

\* What run_ising returns to the driver: two series of length S (one entry
\* per sweep), their values fixed by the invocation's random stream.
run_ising(temp, ns, nb, seed) ==
    [Msamp |-> [k \in 1..ns |-> seed + k],
     Esamp |-> [k \in 1..ns |-> 0 - (2 * k + 3 * seed + temp)]]

\* The handlers with every exception ending the program.
on_exception_fail_fast(exc) == "exit"

\* The handlers of the loop's try block (main.py:85-90): a KeyboardInterrupt
\* exits the program, anything else is logged and the loop goes on.
on_exception(exc) == IF exc = "interrupt" THEN "exit" ELSE "continue"

\* ------------------------------------------------------------------ driver
EngineIdle ==
    /\ N = 1 /\ J = 0 /\ B = 0 /\ S = 0 /\ Bn = 0 /\ nprop = 1
    /\ spin = <<1>>
    /\ M = 0 /\ E = 0 /\ sweep = 0 /\ cand = 0 /\ Ms = <<>> /\ Es = <<>>
    /\ engine = "Idle" /\ flips = 0

DriverStart ==
    /\ pc = "start" /\ T = <<>> /\ index = 0
    /\ Msamp = <<>> /\ Esamp = <<>>
    /\ created = FALSE /\ file = <<>> /\ calls = <<>>
    /\ temp_arr = <<>> /\ M_mean_arr = <<>> /\ E_mean_arr = <<>>
    /\ M_std_arr = <<>> /\ E_std_arr = <<>>
    /\ log = <<>> /\ figures = <<>> /\ sigint = FALSE

Init ==
    /\ t_min \in 0..MaxTemp /\ t_max \in 0..MaxTemp /\ t_step \in StepValues
    /\ num_steps \in 0..MaxSteps
    /\ num_analysis \in 0..(MaxSteps + 1)
    /\ num_burnin \in 0..(MaxSteps + 1)
    /\ plots \in BOOLEAN
    /\ DriverStart
    /\ EngineIdle

Options == <<t_min, t_max, t_step, num_steps, num_analysis, num_burnin, plots>>
Arrays == <<temp_arr, M_mean_arr, E_mean_arr, M_std_arr, E_std_arr>>

\* main.py:50
CheckStepValues ==
    /\ pc = "start"
    /\ pc' = IF check_step_values(num_steps, num_analysis, num_burnin) = "ok"
             THEN "temps" ELSE "ValueError"
    /\ UNCHANGED <<Options, T, index, Msamp, Esamp, created, file, calls, Arrays,
                   log, figures, sigint, evars>>

\* main.py:52
GetTempArray ==
    /\ pc = "temps"
    /\ LET r == get_temp_array(t_min, t_max, t_step)
       IN  /\ pc' = IF r.err = "ok" THEN "filename" ELSE "ValueError"
           /\ T' = r.T
    /\ UNCHANGED <<Options, index, Msamp, Esamp, created, file, calls, Arrays,
                   log, figures, sigint, evars>>

\* main.py:54: get_filename makes the directory and names the file, or
\* raises ValueError.
GetFilename ==
    /\ pc = "filename"
    /\ \E out \in {"ok", "error"} :
           pc' = IF out = "ok" THEN "params" ELSE "ValueError"
    /\ UNCHANGED <<Options, T, index, Msamp, Esamp, created, file, calls, Arrays,
                   log, figures, sigint, evars>>

ParamRows(ns, na, nb) ==
    << [kind |-> "params_header", cells |-> <<>>],
       [kind |-> "params", cells |-> <<ns, na, nb>>],
       [kind |-> "blank", cells |-> <<>>] >>

\* main.py:56: write_sim_parameters creates the file with three rows, or
\* logs and exits.
WriteSimParameters ==
    /\ pc = "params"
    /\ \E out \in {"ok", "error"} :
           IF out = "ok"
           THEN /\ created' = TRUE
                /\ file' = ParamRows(num_steps, num_analysis, num_burnin)
                /\ log' = log
                /\ pc' = "loop"
           ELSE /\ log' = Append(log, <<"Could not save simulation parameters", -1>>)
                /\ pc' = "exit"
                /\ UNCHANGED <<created, file>>
    /\ UNCHANGED <<Options, T, index, Msamp, Esamp, calls, Arrays,
                   figures, sigint, evars>>

\* main.py:72 with the handlers of main.py:85-90.
RunIsing ==
    /\ pc = "loop" /\ index < Len(T)
    /\ LET temp == T[index + 1]
       IN  /\ calls' = Append(calls, <<temp, num_steps, num_burnin>>)
           /\ \E out \in Outcomes, seed \in Seeds :
                 IF out = "ok"
                 THEN LET r == run_ising(temp, num_steps, num_burnin, seed)
                      IN  /\ Msamp' = r.Msamp /\ Esamp' = r.Esamp
                          /\ pc' = "stats"
                          /\ UNCHANGED <<index, log, sigint>>
                 ELSE IF on_exception(out) = "exit"
                 THEN /\ sigint' = (sigint \/ out = "interrupt")
                      /\ pc' = "exit"
                      /\ UNCHANGED <<Msamp, Esamp, index, log>>
                 ELSE /\ log' = Append(log, <<"Simulation Failed", temp>>)
                      /\ sigint' = (sigint \/ out = "interrupt")
                      /\ index' = index + 1
                      /\ pc' = "loop"
                      /\ UNCHANGED <<Msamp, Esamp>>
    /\ UNCHANGED <<Options, T, created, file, Arrays, figures, evars>>

\* main.py:75 (and 12-28, 162-168).
CalculateAndSaveValues ==
    /\ pc = "stats"
    /\ \E statOut \in Outcomes, headOut \in Outcomes, dataOut \in Outcomes :
         LET r == calculate_and_save_values(
                      [file |-> file, log |-> log, sigint |-> sigint],
                      index, T[index + 1], Msamp, Esamp, num_analysis,
                      statOut, headOut, dataOut)
         IN  /\ file' = r.file /\ log' = r.log /\ sigint' = r.sigint
             /\ IF r.ret /\ plots
                THEN pc' = "plotvals" /\ index' = index
                ELSE pc' = "loop" /\ index' = index + 1
    /\ UNCHANGED <<Options, T, Msamp, Esamp, created, calls, Arrays, figures, evars>>

\* main.py:76-83 (and 97-106): on a failure get_plot_values returns False,
\* the tuple unpacking raises TypeError and the handler of line 89 logs it.
GetPlotValues ==
    /\ pc = "plotvals"
    /\ LET temp == T[index + 1]
       IN \E out \in Outcomes :
           IF out = "ok"
           THEN LET v == get_plot_values(Msamp, Esamp, num_analysis)
                IN  /\ temp_arr' = Append(temp_arr, temp)
                    /\ M_mean_arr' = Append(M_mean_arr, v.M_mean)
                    /\ E_mean_arr' = Append(E_mean_arr, v.E_mean)
                    /\ M_std_arr' = Append(M_std_arr, v.M_std)
                    /\ E_std_arr' = Append(E_std_arr, v.E_std)
                    /\ index' = index + 1
                    /\ pc' = "loop"
                    /\ UNCHANGED <<log, sigint>>
           ELSE /\ sigint' = (sigint \/ out = "interrupt")
                /\ UNCHANGED Arrays
                /\ IF on_exception("error") = "exit"
                   THEN /\ log' = Append(log, <<"Error getting plot values", temp>>)
                        /\ pc' = "exit"
                        /\ index' = index
                   ELSE /\ log' = log \o << <<"Error getting plot values", temp>>,
                                            <<"Simulation Failed", temp>> >>
                        /\ index' = index + 1
                        /\ pc' = "loop"
    /\ UNCHANGED <<Options, T, Msamp, Esamp, created, file, calls, figures, evars>>

\* main.py:92-94: the loop is exhausted.
FinishLoop ==
    /\ pc = "loop" /\ index = Len(T)
    /\ pc' = IF plots THEN "plot" ELSE "done"
    /\ UNCHANGED <<Options, T, index, Msamp, Esamp, created, file, calls, Arrays,
                   log, figures, sigint, evars>>

\* main.py:95: the call passes its arguments by position.
PlotGraphs ==
    /\ pc = "plot"
    /\ figures' = plot_graphs(temp_arr, M_mean_arr, E_mean_arr, M_std_arr, E_std_arr)
    /\ pc' = "done"
    /\ UNCHANGED <<Options, T, index, Msamp, Esamp, created, file, calls, Arrays,
                   log, sigint, evars>>

Next ==
    \/ CheckStepValues
    \/ GetTempArray
    \/ GetFilename
    \/ WriteSimParameters
    \/ RunIsing
    \/ CalculateAndSaveValues
    \/ GetPlotValues
    \/ FinishLoop
    \/ PlotGraphs

Spec == Init /\ [][Next]_vars

\* ------------------------------------------------------------------ engine
\* The engine invoked as run_ising: Lattice, EnergyModel, MetropolisStepper
\* and SimulationDriver.
Sites(n) == (0..(n - 1)) \X (0..(n - 1))

\* The N x N grid is stored row by row: cell (i, j) is entry i*N + j + 1.
Cell(n, i, j) == i * n + j + 1
Grids(n) == [1..(n * n) -> {-1, 1}]

\* Lattice.neighborSum(i, j): the four toroidal neighbours, each direction
\* counted (on a 1x1 or 2x2 lattice the same site is met more than once).
neighborSum(sp, n, i, j) ==
      sp[Cell(n, (i + 1) % n, j)] + sp[Cell(n, (i + n - 1) % n, j)]
    + sp[Cell(n, i, (j + 1) % n)] + sp[Cell(n, i, (j + n - 1) % n)]

\* flipEnergyDelta without the field term.
flipEnergyDelta_no_field(s, ns, j, b) == 2 * s * j * ns

\* EnergyModel.flipEnergyDelta(spin, neighborSum, J, B).
flipEnergyDelta(s, ns, j, b) == 2 * s * (j * ns + b)

\* Lattice.totalMagnetization(): the sum of all spins.
totalMagnetization(sp, n) == SeqSum(sp)

RECURSIVE BondSum(_, _, _)
\* The sum, over the cells 1..k, of the cell's spin times the spins of the
\* cell below it and of the cell right of it (toroidal).
BondSum(sp, n, k) ==
    IF k = 0 THEN 0
    ELSE LET i == (k - 1) \div n
             j == (k - 1) % n
         IN  sp[k] * (sp[Cell(n, (i + 1) % n, j)] + sp[Cell(n, i, (j + 1) % n)])
             + BondSum(sp, n, k - 1)

\* Lattice.totalEnergy(J, B): -J * (sum of s_i s_j over every nearest-
\* neighbour bond once: each site's bond to the site below it and to the site
\* right of it) - B * (sum of spins).
totalEnergy(sp, n, j, b) ==
    0 - j * BondSum(sp, n, n * n) - b * SeqSum(sp)

\* Metropolis acceptance: a proposal with dE <= 0 is always accepted, one with
\* dE > 0 with probability exp(-dE/T), so either way.
Acceptances(dE) == IF dE <= 0 THEN {TRUE} ELSE {TRUE, FALSE}

\* Recording that skips the burn-in sweeps.
record_after_burnin(series, value, sweepNo, burnin) ==
    IF sweepNo < burnin THEN series ELSE Append(series, value)

\* Recording after a sweep: one entry is appended, whatever the sweep number
\* and the burn-in count.
record(series, value, sweepNo, burnin) == Append(series, value)

DriverIdle ==
    /\ t_min = 0 /\ t_max = 0 /\ t_step = 1
    /\ num_steps = 0 /\ num_analysis = 0 /\ num_burnin = 0 /\ plots = FALSE
    /\ pc = "idle" /\ T = <<>> /\ index = 0
    /\ Msamp = <<>> /\ Esamp = <<>>
    /\ created = FALSE /\ file = <<>> /\ calls = <<>>
    /\ temp_arr = <<>> /\ M_mean_arr = <<>> /\ E_mean_arr = <<>>
    /\ M_std_arr = <<>> /\ E_std_arr = <<>>
    /\ log = <<>> /\ figures = <<>> /\ sigint = FALSE

\* Lattice.initialize(N) and the start of run(N, T, S, Bn, p, J, B): every
\* cell is -1 or +1, the running totals start from the full computation.
EngineStart ==
    /\ spin \in Grids(N)
    /\ M = totalMagnetization(spin, N)
    /\ E = totalEnergy(spin, N, J, B)
    /\ sweep = 0 /\ cand = 0 /\ Ms = <<>> /\ Es = <<>>
    /\ engine = "Running" /\ flips = 0

\* Multi-sweep runs on small lattices.
InitEngine ==
    /\ DriverIdle
    /\ N \in SweepSizes /\ J \in JValues /\ B \in BValues
    /\ S \in 0..MaxSweeps /\ Bn \in 0..S
    /\ nprop \in 1..(IF N * N < MaxProposals THEN N * N ELSE MaxProposals)
    /\ EngineStart

\* Runs of one sweep of one proposal, from every lattice of size 1..MaxN.
InitFlip ==
    /\ DriverIdle
    /\ N \in 1..MaxN
    /\ \E jb \in FlipCouplings : J = jb[1] /\ B = jb[2]
    /\ S = 1 /\ Bn = 0 /\ nprop = 1
    /\ EngineStart

\* MetropolisStepper, step 2: one candidate site, its dE from the current
\* lattice, the flip applied at once when accepted, the running totals
\* adjusted by -2*spin and dE.
Propose ==
    /\ engine = "Running" /\ sweep < S /\ cand < nprop
    /\ \E c \in Sites(N) :
         LET k == Cell(N, c[1], c[2])
             dE == flipEnergyDelta(spin[k], neighborSum(spin, N, c[1], c[2]), J, B)
         IN  \E accept \in Acceptances(dE) :
               IF accept
               THEN /\ spin' = [spin EXCEPT ![k] = 0 - spin[k]]
                    /\ M' = M - 2 * spin[k]
                    /\ E' = E + dE
                    /\ flips' = flips + 1
               ELSE UNCHANGED <<spin, M, E, flips>>
    /\ cand' = cand + 1
    /\ UNCHANGED <<N, J, B, S, Bn, nprop, sweep, Ms, Es, engine, dvars>>

\* MetropolisStepper, step 3: the sweep is complete, the observables are
\* recorded.
EndSweep ==
    /\ engine = "Running" /\ sweep < S /\ cand = nprop
    /\ Ms' = record(Ms, M, sweep, Bn)
    /\ Es' = record(Es, E, sweep, Bn)
    /\ sweep' = sweep + 1
    /\ cand' = 0
    /\ UNCHANGED <<N, J, B, S, Bn, nprop, spin, M, E, engine, flips, dvars>>

\* After S sweeps the engine is Done and the series are returned.
Finish ==
    /\ engine = "Running" /\ sweep = S
    /\ engine' = "Done"
    /\ UNCHANGED <<N, J, B, S, Bn, nprop, spin, M, E, sweep, cand, Ms, Es, flips, dvars>>

NextEngine == Propose \/ EndSweep \/ Finish

SpecEngine == InitEngine /\ [][NextEngine]_vars
SpecFlip == InitFlip /\ [][NextEngine]_vars

\* ------------------------------------------------------------------ claims
\* The positions of run_simulation inside or after the temperature loop.
LoopStates == {"loop", "stats", "plotvals"}
AfterLoop == {"plot", "done"}

DataRows(f) == SelectSeq(f, LAMBDA r : r.kind = "data")
HeaderPositions(f) == {k \in 1..Len(f) : f[k].kind = "header"}
DataPositions(f) == {k \in 1..Len(f) : f[k].kind = "data"}

\* The temperatures whose iteration has been completed.
Completed == IF pc \in AfterLoop THEN Len(T) ELSE index

\* A failure was logged while temperature temp was processed.
FailedAt(temp) == \E k \in 1..Len(log) : log[k][2] = temp

RowsFor(temp) == {k \in DataPositions(file) : file[k].cells[1] = temp}

\* C1: failures are isolated per temperature.  When the run ends normally
\* run_ising has been invoked exactly once for every temperature of T, in
\* order, whatever failed on the way; every completed temperature at which
\* no failure was logged has exactly one data row in the file; and once the
\* loop has started the program exits early only through a
\* KeyboardInterrupt, never through a failure.
C1_FailureIsolation ==
    /\ pc \in AfterLoop =>
          /\ Len(calls) = Len(T)
          /\ \A k \in 1..Len(T) : calls[k][1] = T[k]
    /\ pc \in LoopStates \cup AfterLoop =>
          \A k \in 1..Completed :
              ~FailedAt(T[k]) => Cardinality(RowsFor(T[k])) = 1
    /\ (pc = "exit" /\ created) => sigint

\* C1 witness: the run ended normally, the first temperature failed and the
\* second one has its row.
C1_Witness ==
    /\ pc = "done" /\ Len(T) >= 2
    /\ FailedAt(T[1]) /\ RowsFor(T[1]) = {}
    /\ ~FailedAt(T[2]) /\ Cardinality(RowsFor(T[2])) = 1

C2_Invalid == num_burnin > num_steps \/ num_analysis > num_steps - num_burnin

\* C2: with num_burnin > num_steps or num_analysis > num_steps - num_burnin
\* run_simulation ends in the ValueError of check_step_values: it never gets
\* past it, run_ising is never invoked and no file is created or written.
C2_ValidationFirst ==
    (C2_Invalid /\ pc /= "idle") =>
        /\ pc \in {"start", "ValueError"}
        /\ calls = <<>> /\ ~created /\ file = <<>> /\ T = <<>>

\* C2 witness: an invalid combination has been rejected.
C2_Witness == C2_Invalid /\ pc = "ValueError" /\ num_burnin <= num_steps

\* C3: for accepted step counts the window series[-num_analysis:] of a series
\* of length num_steps has exactly num_analysis entries and starts at or
\* after entry num_burnin, so it holds none of the burn-in entries.
C3_TailExcludesBurnin ==
    pc = "stats" =>
        LET w == TailWindow(Msamp, num_analysis)
            first == SliceStart(Len(Msamp), 0 - num_analysis)
        IN  /\ Len(Msamp) = num_steps
            /\ Len(w) = num_analysis
            /\ (w = <<>> \/ first >= num_burnin)

NoFailure == log = <<>> /\ ~sigint

\* The data row calculate_and_save_values writes for temperature temp from
\* the series Ms_, Es_: temperature, magnetization mean, magnetization
\* std-dev, energy mean, energy std-dev.
ExpectedRow(temp, Ms_, Es_) ==
    DataRow(<<temp, Average(TailWindow(Ms_, num_analysis)),
              Std(TailWindow(Ms_, num_analysis)),
              Average(TailWindow(Es_, num_analysis)),
              Std(TailWindow(Es_, num_analysis))>>)

\* C4: while nothing has failed, run_ising has been invoked exactly once for
\* each temperature reached, in increasing temperature order, and the file
\* holds exactly one data row for each temperature whose statistics step is
\* over, in the same order, the last one holding the five values computed
\* from the series of its invocation (checked until the next invocation
\* replaces the series); so each row is in the file before the next
\* invocation.
C4_OnePerTemperature ==
    (NoFailure /\ pc \in LoopStates \cup AfterLoop) =>
        LET invoked == IF pc \in {"stats", "plotvals"} THEN index + 1 ELSE Completed
            written == IF pc = "plotvals" THEN index + 1 ELSE Completed
            rows == DataRows(file)
        IN  /\ Len(calls) = invoked
            /\ \A k \in 1..invoked : calls[k] = <<T[k], num_steps, num_burnin>>
            /\ \A k \in 1..(Len(T) - 1) : T[k] < T[k + 1]
            /\ Len(rows) = written
            /\ \A k \in 1..written : rows[k].cells[1] = T[k] /\ Len(rows[k].cells) = 5
            /\ (written >= 1 /\ pc /= "stats") =>
                   rows[written] = ExpectedRow(T[written], Msamp, Esamp)
            /\ Len(calls) <= Len(rows) + 1

\* C4 witness: a run without failure over at least two temperatures is done.
C4_Witness ==
    /\ NoFailure /\ pc = "done" /\ Len(T) >= 2
    /\ Len(DataRows(file)) = Len(T) /\ Len(calls) = Len(T) /\ num_steps >= 2

\* C5: the engine executes exactly S sweeps and records one magnetization and
\* one energy entry after every sweep, the first Bn included: the series
\* have as many entries as sweeps were executed, and S entries once Done.
C5_SeriesLength ==
    engine \in {"Running", "Done"} =>
        /\ Len(Ms) = sweep /\ Len(Es) = sweep /\ sweep <= S
        /\ engine = "Done" => (sweep = S /\ Len(Ms) = S /\ Len(Es) = S)

\* C5 witness: an engine run with burn-in sweeps is Done.
C5_Witness == engine = "Done" /\ S >= 2 /\ Bn >= 1 /\ Len(Ms) = S

\* C6 as stated, for every N >= 1: the running totals, adjusted by
\* flipEnergyDelta and -2*spin on each accepted flip, equal the full
\* recomputation.
C6_FlipDeltaAllSizes ==
    engine \in {"Running", "Done"} =>
        /\ E = totalEnergy(spin, N, J, B)
        /\ M = totalMagnetization(spin, N)

\* C6 amended, for N >= 2: the running totals equal the full recomputation
\* after every proposal, i.e. flipEnergyDelta is the change of totalEnergy
\* under the flip of that one site.
C6_FlipDelta ==
    (engine \in {"Running", "Done"} /\ N >= 2) =>
        /\ E = totalEnergy(spin, N, J, B)
        /\ M = totalMagnetization(spin, N)

\* C6 witness: on a 2x2 lattice, where each neighbour is met twice, a flip
\* that changes the energy has been accepted and the sweep recorded.
C6_Witness ==
    /\ engine = "Done" /\ N = 2 /\ flips = 1
    /\ Es = <<E>> /\ E = totalEnergy(spin, N, J, B)
    /\ E /= totalEnergy([spin EXCEPT ![1] = 0 - @], N, J, B)

\* C7: with plots enabled, plot_graphs draws magnetization means with
\* magnetization std-devs as error bars and energy means with energy
\* std-devs as error bars, each against the temperatures collected.
C7_PlotRouting ==
    (pc = "done" /\ plots) =>
        figures = [magnetization |-> [x |-> temp_arr, y |-> M_mean_arr, yerr |-> M_std_arr],
                   energy |-> [x |-> temp_arr, y |-> E_mean_arr, yerr |-> E_std_arr]]

InSeq(x, seq) == \E k \in 1..Len(seq) : seq[k] = x

\* C8: for t_min <= t_max and t_step > 0 the temperature array holds t_min,
\* holds t_max when t_max - t_min is a whole multiple of t_step, and has
\* exactly one entry when t_min = t_max.
C8_InclusiveRange ==
    (pc \in {"filename", "params", "exit"} \cup LoopStates \cup AfterLoop
        /\ t_min <= t_max /\ t_step > 0) =>
        /\ InSeq(t_min, T)
        /\ (t_max - t_min) % t_step = 0 => InSeq(t_max, T)
        /\ t_min = t_max => Len(T) = 1

\* C9: the column-header row is in the file at most once, and when the file
\* holds a data row the header row stands before the first data row.
C9_HeaderBeforeData ==
    /\ Cardinality(HeaderPositions(file)) <= 1
    /\ DataPositions(file) /= {} =>
          \E h \in HeaderPositions(file) : \A d \in DataPositions(file) : h < d

\* C10: a KeyboardInterrupt raised while a temperature is processed ends the
\* sweep: once one has been raised, no later temperature is simulated and no
\* further row is appended.
C10_InterruptExits == [][sigint => (calls' = calls /\ file' = file)]_vars

====
